---- MODULE Spec2Model ----
(***************************************************************************)
(* asnet: a packet-oriented layer over TCP.  The Host (src/src/host.rs)    *)
(* owns a slab of peers, a queue of pending events and the slot whose      *)
(* removal was deferred; each Peer (src/src/peer.rs) owns the read and     *)
(* write automata of the 4-byte big-endian length-prefixed framing.        *)
(* The transport (TCP sockets and the mio poller) is the environment.      *)
(***************************************************************************)
EXTENDS Integers, Sequences, FiniteSets, TLC

VARIABLES
    peers,      \* Host.peers: the slab's entries (occupied or vacant)
    slabNext,   \* the slab's next vacant key (head of its free list)
    events,     \* Host.events: VecDeque<HostEvent>
    remove,     \* Host.remove: Option<usize> (NoSlot is None)
    clock,      \* Instant::now()
    sock,       \* per slot: the transport side of the peer's TcpStream
    pending,    \* per slot: edge-triggered readiness not yet reported by poll
    lpending,   \* the listener's readiness edge not yet reported by poll
    backlog,    \* inbound connections waiting in the listener's accept queue
    pc,         \* the caller's position: "idle" or inside process_blocking
    ret,        \* what the last API call returned
    lives,      \* history: number of peer lifecycles started
    hist,       \* history: per lifecycle, the events returned to the caller
    sent,       \* history: per lifecycle, the payloads passed to send
    budget      \* environment: chunks the remote ends may still send

vars == <<peers, slabNext, events, remove, clock, sock, pending, lpending,
          backlog, pc, ret, lives, hist, sent, budget>>

----------------------------------------------------------------------------
(* Bounds of the model *)

MaxLives == 2
MaxClock == 2
MaxSends == 2
MaxRemote == 1
MaxFrameChunks == 2
MaxWCap == 6
Timeout == 2

(* Program constants *)

BufSize == 512

Lives == 1..MaxLives
Slots == 0..(MaxLives - 1)
NoSlot == -1

Payloads == {<<7>>, <<8, 9>>}

RecoverableKinds == {"InvalidData", "ConnectionRefused", "ConnectionReset",
                     "ConnectionAborted", "BrokenPipe"}
FatalKinds == {"Other"}
TransportErrors == {"ConnectionRefused", "ConnectionReset", "ConnectionAborted",
                    "BrokenPipe"} \cup FatalKinds

Min(a, b) == IF a < b THEN a ELSE b

----------------------------------------------------------------------------
(* Frame codec *)

\* (len as u32).to_be_bytes(): the four low-order bytes, most significant first.
U32BE(n) == << (n \div 16777216) % 256, (n \div 65536) % 256,
               (n \div 256) % 256, n % 256 >>

\* The header read least significant byte first.
FromBE_Little(a, b, c, e) == a + b * 256 + c * 65536 + e * 16777216

FromBE(a, b, c, e) == a * 16777216 + b * 65536 + c * 256 + e

Frame(payload) == U32BE(Len(payload)) \o payload

ZeroHeader == <<0, 0, 0, 0>>

\* What a remote endpoint writes at once: a frame, a zero-length header, or a
\* frame with a zero-length header right behind it.
RemoteChunks == {Frame(p) : p \in Payloads} \cup {ZeroHeader}
                \cup {Frame(p) \o ZeroHeader : p \in Payloads}

----------------------------------------------------------------------------
(* Peer *)

RSNone == [tag |-> "None", hdr |-> <<>>, packet |-> <<>>, size |-> 0]
WSNone == [some |-> FALSE, data |-> <<>>, done |-> 0]

PeerNew(stream, life, now) ==
    [ stream |-> stream,
      incoming_packets |-> <<>>,
      outgoing_packets |-> <<>>,
      ready |-> {},
      read_state |-> RSNone,
      write_state |-> WSNone,
      last_activity |-> now,
      connection_state |-> IF stream THEN "Connected" ELSE "Disconnected",
      life |-> life ]

NoPeer == PeerNew(FALSE, 0, 0)

connected(p) == p.stream

\* One byte through the read automaton: the new state, the inbound queue and
\* the error, if any.
FeedByte(rs, inc, e) ==
    CASE rs.tag = "Size1" ->
           [rs |-> [rs EXCEPT !.tag = "Size2", !.hdr = Append(@, e)], inc |-> inc, err |-> "ok"]
      [] rs.tag = "Size2" ->
           [rs |-> [rs EXCEPT !.tag = "Size3", !.hdr = Append(@, e)], inc |-> inc, err |-> "ok"]
      [] rs.tag = "Size3" ->
           LET size == FromBE(rs.hdr[1], rs.hdr[2], rs.hdr[3], e)
           IN  IF size = 0
               THEN [rs |-> RSNone, inc |-> inc, err |-> "InvalidData"]
               ELSE [rs |-> [tag |-> "Packet", hdr |-> <<>>, packet |-> <<>>, size |-> size],
                     inc |-> inc, err |-> "ok"]
      [] rs.tag = "Packet" ->
           LET packet == Append(rs.packet, e)
           IN  IF Len(packet) = rs.size
               THEN [rs |-> RSNone, inc |-> Append(inc, packet), err |-> "ok"]
               ELSE [rs |-> [rs EXCEPT !.packet = packet], inc |-> inc, err |-> "ok"]
      [] OTHER ->
           [rs |-> [RSNone EXCEPT !.tag = "Size1", !.hdr = <<e>>], inc |-> inc, err |-> "ok"]

RECURSIVE Feed(_, _, _)
Feed(rs, inc, bytes) ==
    IF bytes = <<>>
    THEN [rs |-> rs, inc |-> inc, err |-> "ok"]
    ELSE LET f == FeedByte(rs, inc, Head(bytes))
         IN  IF f.err # "ok" THEN f ELSE Feed(f.rs, f.inc, Tail(bytes))

\* Shared::readable.  rx is what the socket has buffered; atEnd is what read
\* answers once the buffer is drained: "WouldBlock", "Eof" (Ok(0)) or an
\* error kind.
RECURSIVE ReadLoop(_, _, _, _, _)
ReadLoop(p, rx, processed, atEnd, now) ==
    IF rx # <<>>
    THEN LET n == Min(Len(rx), BufSize)
             f == Feed(p.read_state, p.incoming_packets, SubSeq(rx, 1, n))
             q == [p EXCEPT !.read_state = f.rs, !.incoming_packets = f.inc]
             rest == SubSeq(rx, n + 1, Len(rx))
         IN  IF f.err # "ok"
             THEN [p |-> q, rx |-> rest, err |-> f.err]
             ELSE ReadLoop(q, rest, processed + n, atEnd, now)
    ELSE IF atEnd \notin {"WouldBlock", "Eof"}
         THEN [p |-> p, rx |-> rx, err |-> atEnd]
         ELSE LET q == IF atEnd = "WouldBlock"
                       THEN [p EXCEPT !.ready = @ \ {"r"}] ELSE p
              IN  [p |-> IF processed # 0 THEN [q EXCEPT !.last_activity = now] ELSE q,
                   rx |-> rx, err |-> "ok"]

readable(p, rx, atEnd, now) == ReadLoop(p, rx, 0, atEnd, now)

\* Shared::writable.  cap is the number of bytes the socket accepts before it
\* answers WouldBlock; werr is the error a write answers with ("none" if it
\* does not fail).  out collects the bytes the transport accepted.
RECURSIVE WriteLoop(_, _, _, _, _, _)
WriteLoop(p, cap, out, processed, werr, now) ==
    LET taken == p.write_state
        stop(q) == [p |-> IF processed # 0 THEN [q EXCEPT !.last_activity = now] ELSE q,
                    out |-> out, err |-> "ok"]
    IN  IF taken.some /\ taken.done = Len(taken.data)
        THEN WriteLoop([p EXCEPT !.write_state = WSNone], cap, out, processed, werr, now)
        ELSE IF ~taken.some /\ p.outgoing_packets = <<>>
        THEN stop(p)
        ELSE LET write_state ==
                     IF taken.some THEN taken
                     ELSE [some |-> TRUE, data |-> Frame(Head(p.outgoing_packets)), done |-> 0]
                 \* the state was taken out of the peer and is a local from here on
                 q == [p EXCEPT !.write_state = WSNone,
                                !.outgoing_packets = IF taken.some THEN @ ELSE Tail(@)]
                 buf == SubSeq(write_state.data, write_state.done + 1, Len(write_state.data))
                 n == Min(cap, Len(buf))
             IN  IF werr # "none"
                 THEN [p |-> q, out |-> out, err |-> werr]
                 ELSE IF n = 0
                 THEN stop([q EXCEPT !.ready = @ \ {"w"}])
                 ELSE WriteLoop(q, cap - n, out \o SubSeq(buf, 1, n), processed + n, werr, now)

\* The write half stamps the peer whether or not a byte was written.
writable_stamping(p, cap, werr, now) ==
    [WriteLoop(p, cap, <<>>, 0, werr, now) EXCEPT !.p.last_activity = now]

writable(p, cap, werr, now) == WriteLoop(p, cap, <<>>, 0, werr, now)

\* Shared::update (the peer.process() of the host's scan): read, then write.
\* io is the transport's side of this call: [rx, atEnd, cap, werr].
\* r is the outcome of the read half, w of the write half.
Written(r, w) == [p |-> w.p, rx |-> r.rx, out |-> w.out, err |-> w.err]

WriteHalf(r, io, now) ==
    IF r.err # "ok"
    THEN [p |-> r.p, rx |-> r.rx, out |-> <<>>, err |-> r.err]
    ELSE IF "w" \in r.p.ready
    THEN Written(r, writable(r.p, io.cap, io.werr, now))
    ELSE [p |-> r.p, rx |-> r.rx, out |-> <<>>, err |-> "ok"]

ReadHalf(p, io, now) ==
    IF "r" \in p.ready
    THEN readable(p, io.rx, io.atEnd, now)
    ELSE [p |-> p, rx |-> io.rx, err |-> "ok"]

update(p, io, now) == WriteHalf(ReadHalf(p, io, now), io, now)

\* The reported bits overwrite the peer's instead of being merged.
ready_replace(p, bits) == [p EXCEPT !.ready = bits]

\* Peer::ready (update_ready): merge the reported readiness bits.
ready(p, bits) == [p EXCEPT !.ready = @ \cup bits]

\* Peer::send
send(p, packet) == [p EXCEPT !.outgoing_packets = Append(@, packet)]

\* Peer::disconnect: the connection state is all it changes.
disconnect(p) == [p EXCEPT !.connection_state = "Disconnected"]

\* Peer::process as the host calls it: a peer without a socket does no I/O.
process(p, io, now) ==
    IF connected(p) THEN update(p, io, now)
    ELSE [p |-> p, rx |-> io.rx, out |-> <<>>, err |-> "ok"]

----------------------------------------------------------------------------
(* Slab<Peer> *)

Occ(p) == [occ |-> TRUE, next |-> 0, peer |-> p]
Vacant(n) == [occ |-> FALSE, next |-> n, peer |-> NoPeer]

contains(entries, key) == key >= 0 /\ key < Len(entries) /\ entries[key + 1].occ

\* VacantEntry::insert at key == next
SlabInsert(entries, next, key, p) ==
    IF key = Len(entries)
    THEN [entries |-> Append(entries, Occ(p)), next |-> key + 1]
    ELSE [entries |-> [entries EXCEPT ![key + 1] = Occ(p)], next |-> entries[key + 1].next]

\* Slab::remove of an occupied key
SlabRemove(entries, next, key) ==
    [entries |-> [entries EXCEPT ![key + 1] = Vacant(next)], next |-> key]

----------------------------------------------------------------------------
(* Transport *)

\* zero records that the remote endpoint wrote a zero-length header, wrote the
\* payloads of the frames it wrote (history).
NoSock == [open |-> FALSE, rx |-> <<>>, wire |-> <<>>, eof |-> FALSE, link |-> NoSlot,
           zero |-> FALSE, wrote |-> <<>>]
NewSock == [NoSock EXCEPT !.open = TRUE]

\* Dropping a TcpStream closes it: the other end of a linked pair sees the
\* end of the stream.
CloseSock(sk, s) ==
    LET l == sk[s].link
        sk1 == [sk EXCEPT ![s] = NoSock]
    IN  IF l # NoSlot THEN [sk1 EXCEPT ![l].eof = TRUE, ![l].link = NoSlot] ELSE sk1

\* The bytes a socket accepted travel to the linked socket, if there is one.
Transmit(sk, s, rx, out) ==
    LET l == sk[s].link
        sk1 == [sk EXCEPT ![s].rx = rx]
    IN  IF l # NoSlot /\ out # <<>> THEN [sk1 EXCEPT ![l].wire = @ \o out] ELSE sk1

----------------------------------------------------------------------------
(* Host *)

\* life (the lifecycle the event was queued for, 0 if none) and cause (why a
\* Disconnect was queued: "timeout", "refused", "malformed", "transport") are
\* history, not fields of the program.
Cause(err) == IF err = "InvalidData" THEN "malformed" ELSE "transport"
Event(kind, peer, packet, life, cause) ==
    [kind |-> kind, peer |-> peer, packet |-> packet, life |-> life, cause |-> cause]
HostEvent(kind, peer, packet, life) == Event(kind, peer, packet, life, "")
Disconnect(peer, life, cause) == Event("Disconnect", peer, <<>>, life, cause)
NoEvent == HostEvent("None", NoSlot, <<>>, 0)

RECURSIVE Receives(_, _, _)
Receives(packets, idx, life) ==
    IF packets = <<>> THEN <<>>
    ELSE <<HostEvent("Receive", idx, Head(packets), life)>> \o Receives(Tail(packets), idx, life)

\* The host's fields as one value, threaded through the steps of a call.
Host == [peers |-> peers, slabNext |-> slabNext, events |-> events, remove |-> remove,
         sock |-> sock, pending |-> pending, lpending |-> lpending,
         backlog |-> backlog, lives |-> lives, err |-> "ok"]

\* Every error is answered with a Disconnect.
Recoverable_Any(kind) == TRUE
\* A malformed frame is not among the recoverable kinds.
Recoverable_Transport(kind) == kind \in RecoverableKinds \ {"InvalidData"}
Recoverable(kind) == kind \in RecoverableKinds

\* What the transport answers to the I/O of slot i during a scan.
IoOf(h, i, inp) ==
    [rx |-> h.sock[i].rx,
     atEnd |-> IF inp.ioerr[i] # "none" THEN inp.ioerr[i]
               ELSE IF h.sock[i].eof /\ h.sock[i].wire = <<>> THEN "Eof" ELSE "WouldBlock",
     cap |-> inp.cap[i],
     werr |-> inp.ioerr[i]]

\* The I/O part of the loop body: peer.process(), the Disconnect of a
\* recoverable error, the Receive events of the completed packets.
\* u is the outcome of peer.process().
Processed(h, idx, u) ==
    LET peer == h.peers[idx + 1].peer
        sk == Transmit(h.sock, idx, u.rx, u.out)
    IN  IF u.err # "ok" /\ ~Recoverable(u.err)
        THEN [h EXCEPT !.peers[idx + 1].peer = u.p, !.sock = sk, !.err = u.err]
        ELSE [h EXCEPT
                !.peers[idx + 1].peer = [u.p EXCEPT !.incoming_packets = <<>>],
                !.sock = sk,
                !.events = (IF u.err # "ok"
                            THEN Append(@, Disconnect(idx, peer.life, Cause(u.err)))
                            ELSE @)
                           \o Receives(u.p.incoming_packets, idx, peer.life)]

ScanIO(h, idx, inp, now) ==
    Processed(h, idx, process(h.peers[idx + 1].peer, IoOf(h, idx, inp), now))

TimedOut(peer, now) == now - peer.last_activity >= Timeout

\* The loop body without its continue: a timed-out peer still does its I/O.
ScanPeer_NoContinue(h, idx, inp, now) ==
    LET peer == h.peers[idx + 1].peer
    IN  IF TimedOut(peer, now)
        THEN ScanIO([h EXCEPT !.events = Append(@, Disconnect(idx, peer.life, "timeout"))],
                    idx, inp, now)
        ELSE ScanIO(h, idx, inp, now)

\* One peer of the scan of process_internal (the body of its for loop).
ScanPeer(h, idx, inp, now) ==
    LET peer == h.peers[idx + 1].peer
    IN  IF TimedOut(peer, now)
        THEN [h EXCEPT !.events = Append(@, Disconnect(idx, peer.life, "timeout"))]
        ELSE ScanIO(h, idx, inp, now)

\* The scan of process_internal: every occupied slot in index order, until a
\* fatal error returns.
RECURSIVE Scan(_, _, _, _)
Scan(h, idx, inp, now) ==
    IF idx >= Len(h.peers) \/ h.err # "ok" THEN h
    ELSE IF ~h.peers[idx + 1].occ THEN Scan(h, idx + 1, inp, now)
    ELSE Scan(ScanPeer(h, idx, inp, now), idx + 1, inp, now)

\* Slab::vacant_entry().key(): the key the next insertion gets.
vacant_key_first(h) == 0
vacant_key(h) == h.slabNext

\* The listener's token: one accept, its registration and its Connect.
\* fail is the fatal failure the call meets, if any.
Accept(h, fail, now) ==
    IF fail = "accept" THEN [h EXCEPT !.err = "AcceptFailed"]
    ELSE IF h.backlog = 0 THEN h
    ELSE IF fail = "register" THEN [h EXCEPT !.backlog = @ - 1, !.err = "RegisterFailed"]
    ELSE LET key == vacant_key(h)
             life == h.lives + 1
             ins == SlabInsert(h.peers, h.slabNext, key, PeerNew(TRUE, life, now))
         IN  [h EXCEPT !.peers = ins.entries, !.slabNext = ins.next,
                       !.backlog = @ - 1, !.lives = life,
                       !.sock[key] = NewSock,
                       !.events = Append(@, HostEvent("Connect", key, <<>>, life))]

\* A peer's token: merge the readiness bits if the slot is occupied.
UpdateReady(h, batch) ==
    [h EXCEPT !.peers = [i \in DOMAIN h.peers |->
                           IF h.peers[i].occ /\ batch[i - 1] # {}
                           THEN [h.peers[i] EXCEPT !.peer = ready(@, batch[i - 1])]
                           ELSE h.peers[i]]]

\* poll and the loop over its events.  The batch holds every pending edge;
\* lfirst tells whether the listener's event comes before the peers'.
Poll(h, fail, lfirst, now) ==
    IF fail = "poll" THEN [h EXCEPT !.err = "PollFailed"]
    ELSE LET taken == [h EXCEPT !.pending = [s \in Slots |-> {}], !.lpending = FALSE]
         IN  IF ~h.lpending THEN UpdateReady(taken, h.pending)
             ELSE IF lfirst
             THEN LET a == Accept(taken, fail, now)
                  IN  IF a.err # "ok" THEN a ELSE UpdateReady(a, h.pending)
             ELSE Accept(UpdateReady(taken, h.pending), fail, now)

\* Host::process_internal
PollStep(scanned, inp, now) ==
    IF scanned.err # "ok" THEN scanned
    ELSE Poll(scanned, inp.fail, inp.lfirst, now)

process_internal(h, inp, now) == PollStep(Scan(h, 0, inp, now), inp, now)

\* pop_event without the deferral: the slot is freed when its Disconnect is
\* popped.
pop_event_eager(h) ==
    IF h.events = <<>> THEN [h |-> h, ev |-> NoEvent, panic |-> FALSE]
    ELSE LET event == Head(h.events)
             rm == SlabRemove(h.peers, h.slabNext, event.peer)
             h1 == [h EXCEPT !.events = Tail(@)]
         IN  [h |-> IF event.kind = "Disconnect" /\ contains(h.peers, event.peer)
                    THEN [h1 EXCEPT !.peers = rm.entries, !.slabNext = rm.next,
                                    !.sock = CloseSock(@, event.peer),
                                    !.pending[event.peer] = {}]
                    ELSE h1,
              ev |-> event, panic |-> FALSE]

\* Host::pop_event: [h, ev, panic]
pop_event(h) ==
    LET gone == h.remove # NoSlot /\ ~contains(h.peers, h.remove)
        rm == SlabRemove(h.peers, h.slabNext, h.remove)
        h1 == IF h.remove = NoSlot \/ gone THEN [h EXCEPT !.remove = NoSlot]
              ELSE [h EXCEPT !.peers = rm.entries, !.slabNext = rm.next,
                             !.sock = CloseSock(@, h.remove),
                             !.pending[h.remove] = {},
                             !.remove = NoSlot]
    IN  IF gone THEN [h |-> h1, ev |-> NoEvent, panic |-> TRUE]
        ELSE IF h1.events # <<>>
        THEN LET event == Head(h1.events)
             IN  [h |-> [h1 EXCEPT !.events = Tail(@),
                                   !.remove = IF event.kind = "Disconnect"
                                              THEN event.peer ELSE @],
                  ev |-> event, panic |-> FALSE]
        ELSE [h |-> h1, ev |-> NoEvent, panic |-> FALSE]

----------------------------------------------------------------------------
(* Calls and their results *)

\* handle is the lifecycle of the peer the returned handle refers to.
Ret(kind, ev, err, handle) ==
    [kind |-> kind, ev |-> ev, err |-> err, handle |-> handle]

Commit(h) ==
    /\ peers' = h.peers
    /\ slabNext' = h.slabNext
    /\ events' = h.events
    /\ remove' = h.remove
    /\ sock' = h.sock
    /\ pending' = h.pending
    /\ lpending' = h.lpending
    /\ backlog' = h.backlog
    /\ lives' = h.lives

\* The inputs of one tick that the state makes relevant: the error a socket
\* answers its I/O with, the bytes it accepts before WouldBlock, the fatal
\* failure of the poll step, and the order of the poller's events.
IoErrs(h) ==
    LET io(s) == contains(h.peers, s) /\ h.sock[s].open /\ h.sock[s].link = NoSlot
                 /\ h.peers[s + 1].peer.ready # {}
    IN  { f \in [Slots -> TransportErrors \cup {"none"}] :
            \A s \in Slots : ~io(s) => f[s] = "none" }

Caps(h) ==
    LET wr(s) == contains(h.peers, s) /\ h.sock[s].open
                 /\ "w" \in h.peers[s + 1].peer.ready
                 /\ h.peers[s + 1].peer.outgoing_packets # <<>>
    IN  { f \in [Slots -> 0..MaxWCap] : \A s \in Slots : ~wr(s) => f[s] = 0 }

Fails(h) == IF h.lpending THEN {"none", "poll", "accept", "register"} ELSE {"none", "poll"}

Orders(h) == IF h.lpending THEN BOOLEAN ELSE {TRUE}

Inputs(h) ==
    { [ioerr |-> e, cap |-> c, fail |-> f, lfirst |-> o] :
        e \in IoErrs(h), c \in Caps(h), f \in Fails(h), o \in Orders(h) }

\* The event is returned with a handle to self.peers[peer]: indexing a vacant
\* slot panics.
ReturnEvent(pe) ==
    /\ Commit(pe.h)
    /\ IF contains(pe.h.peers, pe.ev.peer)
       THEN /\ ret' = Ret("Event", pe.ev, "ok", pe.h.peers[pe.ev.peer + 1].peer.life)
            /\ hist' = IF pe.ev.life = 0 THEN hist
                       ELSE [hist EXCEPT ![pe.ev.life] =
                               Append(@, [kind |-> pe.ev.kind, packet |-> pe.ev.packet])]
       ELSE /\ ret' = Ret("Panic", pe.ev, "ok", 0)
            /\ hist' = hist

Running == ret.kind # "Panic"

----------------------------------------------------------------------------
(* Actions of the caller *)

\* Host::process(timeout)
\* h is the host after process_internal: the ? returns its error, Ok(None)
\* follows otherwise.
ProcessTicked(h) ==
    /\ Commit(h)
    /\ ret' = IF h.err # "ok"
              THEN Ret("Err", NoEvent, h.err, 0)
              ELSE Ret("None", NoEvent, "ok", 0)
    /\ hist' = hist

\* pe is the outcome of pop_event.
ProcessPopped(pe) ==
    IF pe.panic
    THEN Commit(pe.h) /\ ret' = Ret("Panic", NoEvent, "ok", 0) /\ hist' = hist
    ELSE IF pe.ev # NoEvent
    THEN ReturnEvent(pe)
    ELSE \E inp \in Inputs(pe.h) : ProcessTicked(process_internal(pe.h, inp, clock))

Process ==
    /\ pc = "idle" /\ Running
    /\ ProcessPopped(pop_event(Host))
    /\ UNCHANGED <<clock, pc, sent, budget>>

\* One turn of the loop of Host::process_blocking.
\* h is the host after process_internal: the ? returns its error, the loop
\* goes on otherwise.
BlockingTicked(h) ==
    /\ Commit(h)
    /\ hist' = hist
    /\ IF h.err # "ok"
       THEN /\ ret' = Ret("Err", NoEvent, h.err, 0)
            /\ pc' = "idle"
       ELSE /\ ret' = Ret("Blocked", NoEvent, "ok", 0)
            /\ pc' = "blocking"

BlockingPopped(pe) ==
    IF pe.panic
    THEN /\ Commit(pe.h) /\ hist' = hist /\ pc' = "idle"
         /\ ret' = Ret("Panic", NoEvent, "ok", 0)
    ELSE IF pe.ev # NoEvent
    THEN ReturnEvent(pe) /\ pc' = "idle"
    ELSE \E inp \in Inputs(pe.h) : BlockingTicked(process_internal(pe.h, inp, clock))

BlockingTurn == BlockingPopped(pop_event(Host))

\* Host::process_blocking is called.
ProcessBlocking ==
    /\ pc = "idle" /\ Running
    /\ BlockingTurn
    /\ UNCHANGED <<clock, sent, budget>>

\* Host::process_blocking loops: no event yet.
ProcessBlockingLoop ==
    /\ pc = "blocking" /\ Running
    /\ BlockingTurn
    /\ UNCHANGED <<clock, sent, budget>>

\* What connect queues behind the Connect of a refused attempt.
RefusedEvents_None(idx, life) == <<>>
RefusedEvents(idx, life) == <<Disconnect(idx, life, "refused")>>

ConnectOutcomes == {"ok", "refused", "resolve_err", "connect_err", "register_err"}

\* Host::connect.  outcome is what address resolution, TcpStream::connect
\* and the poller's registration answer.
connect(h, outcome, now) ==
    IF outcome = "resolve_err" THEN [h EXCEPT !.err = "NotFound"]
    ELSE IF outcome = "connect_err" THEN [h EXCEPT !.err = "ConnectFailed"]
    ELSE LET idx == vacant_key(h)
             life == h.lives + 1
             \* a Connect queued for a peer that is never inserted belongs to no
             \* lifecycle
             h1 == [h EXCEPT !.lives = life,
                             !.events = Append(@, HostEvent("Connect", idx, <<>>,
                                           IF outcome = "register_err" THEN 0 ELSE life))]
         IN  IF outcome = "register_err" THEN [h1 EXCEPT !.err = "RegisterFailed"]
             ELSE LET stream == outcome = "ok"
                      ins == SlabInsert(h1.peers, h1.slabNext, idx, PeerNew(stream, life, now))
                  IN  [h1 EXCEPT
                         !.peers = ins.entries, !.slabNext = ins.next,
                         !.sock[idx] = IF stream THEN NewSock ELSE @,
                         !.events = IF stream THEN @ ELSE @ \o RefusedEvents(idx, life)]

Connect ==
    /\ pc = "idle" /\ Running
    /\ lives + backlog < MaxLives
    /\ \E outcome \in ConnectOutcomes :
         LET h == connect(Host, outcome, clock)
         IN  /\ Commit(h)
             /\ ret' = IF h.err # "ok"
                       THEN Ret("Err", NoEvent, h.err, 0)
                       ELSE Ret("Peer",
                                HostEvent("None", vacant_key(Host), <<>>, 0), "ok", lives + 1)
    /\ UNCHANGED <<clock, pc, hist, sent, budget>>

\* The number of send calls so far.
RECURSIVE Sends(_, _)
Sends(log, l) == IF l = 0 THEN 0 ELSE Len(log[l]) + Sends(log, l - 1)

\* Peer::send on the peer of an occupied slot.
Send ==
    /\ pc = "idle" /\ Running
    /\ \E s \in Slots, packet \in Payloads :
         /\ contains(peers, s)
         /\ Sends(sent, MaxLives) < MaxSends
         /\ peers' = [peers EXCEPT ![s + 1].peer = send(@, packet)]
         /\ sent' = [sent EXCEPT ![peers[s + 1].peer.life] = Append(@, packet)]
    /\ ret' = Ret("Unit", NoEvent, "ok", 0)
    /\ UNCHANGED <<slabNext, events, remove, clock, sock, pending, lpending,
                   backlog, pc, lives, hist, budget>>

\* Peer::disconnect on the peer of an occupied slot.
PeerDisconnect ==
    /\ pc = "idle" /\ Running
    /\ \E s \in Slots :
         /\ contains(peers, s)
         /\ peers' = [peers EXCEPT ![s + 1].peer = disconnect(@)]
    /\ ret' = Ret("Unit", NoEvent, "ok", 0)
    /\ UNCHANGED <<slabNext, events, remove, clock, sock, pending, lpending,
                   backlog, pc, lives, hist, sent, budget>>

\* Lifecycle l has its peer in a slot.
Live(l) == \E s \in Slots : contains(peers, s) /\ peers[s + 1].peer.life = l

\* Host::broadcast: send for every peer the slab iterates, the last one
\* taking the packet itself and the others a clone of it.
broadcast(entries, packet) ==
    [i \in DOMAIN entries |->
        IF entries[i].occ THEN [entries[i] EXCEPT !.peer = send(@, packet)]
        ELSE entries[i]]

Broadcast ==
    /\ pc = "idle" /\ Running
    /\ Sends(sent, MaxLives) < MaxSends
    /\ \E packet \in Payloads :
         /\ peers' = broadcast(peers, packet)
         /\ sent' = [l \in Lives |-> IF Live(l) THEN Append(sent[l], packet) ELSE sent[l]]
    /\ ret' = Ret("Unit", NoEvent, "ok", 0)
    /\ UNCHANGED <<slabNext, events, remove, clock, sock, pending, lpending,
                   backlog, pc, lives, hist, budget>>

----------------------------------------------------------------------------
(* Actions of the environment *)

\* A remote endpoint connects to the listener.
RemoteConnect ==
    /\ lives + backlog < MaxLives
    /\ backlog' = backlog + 1
    /\ lpending' = TRUE
    /\ UNCHANGED <<peers, slabNext, events, remove, clock, sock, pending, pc,
                   ret, lives, hist, sent, budget>>

\* The payloads of the frames of a chunk.
ChunkPayloads(chunk) ==
    IF chunk = ZeroHeader THEN <<>> ELSE <<SubSeq(chunk, 5, 4 + chunk[4])>>

\* A remote endpoint writes a frame or a zero-length header.
RemoteSend ==
    /\ budget > 0
    /\ \E s \in Slots, chunk \in RemoteChunks :
         /\ sock[s].open /\ sock[s].link = NoSlot /\ ~sock[s].eof
         /\ sock[s].wire = <<>>
         /\ sock' = [sock EXCEPT ![s].wire = @ \o chunk,
                                 ![s].zero = @ \/ chunk \notin {Frame(p) : p \in Payloads},
                                 ![s].wrote = @ \o ChunkPayloads(chunk)]
    /\ budget' = budget - 1
    /\ UNCHANGED <<peers, slabNext, events, remove, clock, pending, lpending,
                   backlog, pc, ret, lives, hist, sent>>

\* The network delivers the first k bytes in flight to a socket.
Arrive(s, k) ==
    /\ sock[s].open /\ k \in 1..Len(sock[s].wire)
    /\ sock' = [sock EXCEPT ![s].rx = @ \o SubSeq(sock[s].wire, 1, k),
                            ![s].wire = SubSeq(@, k + 1, Len(@))]
    /\ pending' = [pending EXCEPT ![s] = @ \cup {"r"}]
    /\ UNCHANGED <<peers, slabNext, events, remove, clock, lpending, backlog,
                   pc, ret, lives, hist, sent, budget>>

\* Everything in flight arrives.
Deliver == \E s \in Slots : Arrive(s, Len(sock[s].wire))

\* Only a part of what is in flight arrives: the stream is split anywhere.
DeliverPart(s) == \E k \in 1..(Len(sock[s].wire) - 1) : Arrive(s, k)

\* A remote endpoint closes its end.
RemoteClose ==
    /\ \E s \in Slots :
         /\ sock[s].open /\ sock[s].link = NoSlot /\ ~sock[s].eof
         /\ sock' = [sock EXCEPT ![s].eof = TRUE]
         /\ pending' = [pending EXCEPT ![s] = @ \cup {"r"}]
    /\ UNCHANGED <<peers, slabNext, events, remove, clock, lpending, backlog,
                   pc, ret, lives, hist, sent, budget>>

\* A socket becomes writable (connection established, or buffer space again).
BecomeWritable ==
    /\ \E s \in Slots :
         /\ sock[s].open /\ contains(peers, s)
         /\ "w" \notin pending[s] /\ "w" \notin peers[s + 1].peer.ready
         /\ pending' = [pending EXCEPT ![s] = @ \cup {"w"}]
    /\ UNCHANGED <<peers, slabNext, events, remove, clock, sock, lpending,
                   backlog, pc, ret, lives, hist, sent, budget>>

\* Time passes.
Tick ==
    /\ clock < MaxClock
    /\ clock' = clock + 1
    /\ UNCHANGED <<peers, slabNext, events, remove, sock, pending, lpending,
                   backlog, pc, ret, lives, hist, sent, budget>>

----------------------------------------------------------------------------
(* A server host right after HostBuilder::server *)

Init ==
    /\ peers = <<>>
    /\ slabNext = 0
    /\ events = <<>>
    /\ remove = NoSlot
    /\ clock = 0
    /\ sock = [s \in Slots |-> NoSock]
    /\ pending = [s \in Slots |-> {}]
    /\ lpending = FALSE
    /\ backlog = 0
    /\ pc = "idle"
    /\ ret = Ret("Host", NoEvent, "ok", 0)
    /\ lives = 0
    /\ hist = [l \in Lives |-> <<>>]
    /\ sent = [l \in Lives |-> <<>>]
    /\ budget = MaxRemote

Next ==
    \/ Process
    \/ ProcessBlocking
    \/ ProcessBlockingLoop
    \/ Connect
    \/ RemoteConnect
    \/ RemoteSend
    \/ Deliver
    \/ RemoteClose
    \/ Tick

Spec == Init /\ [][Next]_vars

----------------------------------------------------------------------------
(* An established connection whose two ends are peers of this host (the     *)
(* host connected to its own listener); both Connect events were returned.  *)

InitPair ==
    /\ peers = <<Occ(PeerNew(TRUE, 1, 0)), Occ(PeerNew(TRUE, 2, 0))>>
    /\ slabNext = 2
    /\ events = <<>>
    /\ remove = NoSlot
    /\ clock = 0
    /\ sock = [s \in Slots |-> IF s = 0 THEN [NewSock EXCEPT !.link = 1]
                               ELSE IF s = 1 THEN [NewSock EXCEPT !.link = 0]
                               ELSE NoSock]
    /\ pending = [s \in Slots |-> {}]
    /\ lpending = FALSE
    /\ backlog = 0
    /\ pc = "idle"
    /\ ret = Ret("Event", HostEvent("Connect", 1, <<>>, 2), "ok", 2)
    /\ lives = 2
    /\ hist = [l \in Lives |-> IF l <= 2 THEN <<[kind |-> "Connect", packet |-> <<>>]>> ELSE <<>>]
    /\ sent = [l \in Lives |-> <<>>]
    /\ budget = 0

NextPair ==
    \/ Process
    \/ Send
    \/ Deliver
    \/ \E s \in Slots : DeliverPart(s)
    \/ BecomeWritable

SpecPair == InitPair /\ [][NextPair]_vars

----------------------------------------------------------------------------
(* Two established inbound connections from remote endpoints; both Connect  *)
(* events were returned.  The stream of the first is split at every byte.   *)

InitFrame ==
    /\ peers = <<Occ(PeerNew(TRUE, 1, 0)), Occ(PeerNew(TRUE, 2, 0))>>
    /\ slabNext = 2
    /\ events = <<>>
    /\ remove = NoSlot
    /\ clock = 0
    /\ sock = [s \in Slots |-> IF s <= 1 THEN NewSock ELSE NoSock]
    /\ pending = [s \in Slots |-> {}]
    /\ lpending = FALSE
    /\ backlog = 0
    /\ pc = "idle"
    /\ ret = Ret("Event", HostEvent("Connect", 1, <<>>, 2), "ok", 2)
    /\ lives = 2
    /\ hist = [l \in Lives |-> IF l <= 2 THEN <<[kind |-> "Connect", packet |-> <<>>]>> ELSE <<>>]
    /\ sent = [l \in Lives |-> <<>>]
    /\ budget = MaxFrameChunks

NextFrame ==
    \/ Process
    \/ RemoteSend
    \/ Deliver
    \/ DeliverPart(0)

SpecFrame == InitFrame /\ [][NextFrame]_vars

\* The same two connections while time passes; what is in flight arrives
\* whole.
NextIdle ==
    \/ Process
    \/ RemoteSend
    \/ Deliver
    \/ Tick

SpecIdle == InitFrame /\ [][NextIdle]_vars

\* A host whose caller connects, sends, broadcasts and disconnects.
NextCalls ==
    \/ Process
    \/ Connect
    \/ Send
    \/ Broadcast
    \/ PeerDisconnect
    \/ BecomeWritable

SpecCalls == Init /\ [][NextCalls]_vars

----------------------------------------------------------------------------
(* One established inbound connection whose Connect was returned: the      *)
(* remote endpoint writes and closes, the host sends, and the socket        *)
(* reports both kinds of readiness.                                         *)

InitReady ==
    /\ peers = <<Occ(PeerNew(TRUE, 1, 0))>>
    /\ slabNext = 1
    /\ events = <<>>
    /\ remove = NoSlot
    /\ clock = 0
    /\ sock = [s \in Slots |-> IF s = 0 THEN NewSock ELSE NoSock]
    /\ pending = [s \in Slots |-> {}]
    /\ lpending = FALSE
    /\ backlog = 0
    /\ pc = "idle"
    /\ ret = Ret("Event", HostEvent("Connect", 0, <<>>, 1), "ok", 1)
    /\ lives = 1
    /\ hist = [l \in Lives |-> IF l = 1 THEN <<[kind |-> "Connect", packet |-> <<>>]>> ELSE <<>>]
    /\ sent = [l \in Lives |-> <<>>]
    /\ budget = MaxFrameChunks

NextReady ==
    \/ Process
    \/ Send
    \/ RemoteSend
    \/ Deliver
    \/ RemoteClose
    \/ BecomeWritable

SpecReady == InitReady /\ [][NextReady]_vars

----------------------------------------------------------------------------
(* The same connection with the poller reporting the listener when no      *)
(* connection waits to be accepted (a wake-up whose accept answers          *)
(* WouldBlock).                                                             *)

\* The poller reports the listening socket although its accept queue is empty.
ListenerWakes ==
    /\ ~lpending /\ backlog = 0
    /\ lpending' = TRUE
    /\ UNCHANGED <<peers, slabNext, events, remove, clock, sock, pending,
                   backlog, pc, ret, lives, hist, sent, budget>>

NextWake ==
    \/ Process
    \/ Send
    \/ RemoteSend
    \/ Deliver
    \/ BecomeWritable
    \/ ListenerWakes

SpecWake == InitReady /\ [][NextWake]_vars

----------------------------------------------------------------------------
(* The same connection with time passing.                                   *)

NextActive ==
    \/ Process
    \/ Send
    \/ RemoteSend
    \/ Deliver
    \/ BecomeWritable
    \/ Tick

SpecActive == InitReady /\ [][NextActive]_vars

----------------------------------------------------------------------------
(* Properties *)

\* The events of lifecycle l returned so far, and those still queued (together
\* with the one a panicking call had popped).
Returned(l, kind) == \E i \in 1..Len(hist[l]) : hist[l][i].kind = kind
Queued(l) ==
    SelectSeq(events, LAMBDA e : e.life = l)
    \o (IF ret.kind = "Panic" /\ ret.ev.life = l THEN <<ret.ev>> ELSE <<>>)

IsPrefix(a, b) == Len(a) <= Len(b) /\ SubSeq(b, 1, Len(a)) = a

\* The payloads of the Receive events returned for lifecycle l.
RECURSIVE PayloadsOf(_)
PayloadsOf(h) ==
    IF h = <<>> THEN <<>>
    ELSE (IF Head(h).kind = "Receive" THEN <<Head(h).packet>> ELSE <<>>) \o PayloadsOf(Tail(h))

\* C1: the events of a lifecycle reach the caller in order: Connect before
\* every Receive, every Receive before the Disconnect, nothing after the
\* Disconnect; so once the Disconnect was returned no event of the lifecycle
\* is left to return.
C1_EventOrder ==
    \A l \in Lives :
        /\ \A i \in 1..Len(hist[l]) :
             /\ hist[l][i].kind = "Connect" => i = 1
             /\ hist[l][i].kind # "Connect" => hist[l][1].kind = "Connect"
             /\ hist[l][i].kind = "Disconnect" => i = Len(hist[l])
        /\ Returned(l, "Disconnect") => Queued(l) = <<>>

\* C2: over an established connection the payloads of the Receive events of
\* one end are those passed to send on the other end, in order, none lost,
\* repeated, cut or merged: at every moment what was received is a prefix of
\* what was sent.  (Checked on the pair of SpecPair, lifecycles 1 and 2.)
C2_RoundTrip ==
    \A l \in {1, 2} :
        (\A i \in 1..Len(sent[3 - l]) : sent[3 - l][i] # <<>>)
            => IsPrefix(PayloadsOf(hist[l]), sent[3 - l])

Count(seq, kind) == Len(SelectSeq(seq, LAMBDA e : e.kind = kind))

\* The events of a kind queued so far for lifecycle l.
Enqueued(l, kind) == Count(hist[l], kind) + Count(Queued(l), kind)

SlotOf(l) == CHOOSE s \in Slots : contains(peers, s) /\ peers[s + 1].peer.life = l

\* A call of process or process_blocking (or one more turn of its loop).
ProcessCall == Process \/ ProcessBlocking \/ ProcessBlockingLoop

\* C3: in every state each lifecycle has had exactly one Connect queued and
\* at most one Disconnect, whichever of timeout, recoverable error and
\* refused connect asked for it.
C3_OneConnectOneDisconnect ==
    \A l \in Lives :
        /\ Enqueued(l, "Disconnect") <= 1
        /\ Enqueued(l, "Connect") <= 1
        /\ (Live(l) \/ hist[l] # <<>> \/ Queued(l) # <<>>) => Enqueued(l, "Connect") = 1

\* A timed-out peer whose only Disconnect was returned and whose slot is not
\* freed yet.
C3_Witness ==
    \E l \in Lives :
        /\ Live(l) /\ Returned(l, "Connect") /\ Returned(l, "Disconnect")
        /\ clock - peers[SlotOf(l) + 1].peer.last_activity >= Timeout

\* The peer of slot s is gone in the next state: the slot is vacant or holds
\* another lifecycle.
Freed(s) ==
    /\ contains(peers, s)
    /\ ~contains(peers', s) \/ peers'[s + 1].peer.life # peers[s + 1].peer.life

\* C4: an occupied slot is not freed and not handed to another peer before
\* the Disconnect of its peer was returned to the caller.
C4_SlotReuse ==
    [][\A s \in Slots : Freed(s) => Returned(peers[s + 1].peer.life, "Disconnect")]_vars

\* Slot 0 was the first lifecycle's and now holds the second.
C4_Witness ==
    /\ Returned(1, "Disconnect")
    /\ contains(peers, 0) /\ peers[1].peer.life = 2

\* The peer of slot s has no socket: the placeholder of a refused connect.
Placeholder(s) == contains(peers, s) /\ ~connected(peers[s + 1].peer)

\* connect just returned Ok with the handle of a placeholder.
RefusedReturned == ret.kind = "Peer" /\ Placeholder(ret.ev.peer)

\* What a refused connect does: Ok, a handle to a peer without a socket, and
\* the queue gains exactly Connect and Disconnect for its slot, at the tail.
C5_Connect ==
    (Connect /\ ret'.kind = "Peer" /\ ~connected(peers'[ret'.ev.peer + 1].peer)) =>
        /\ ~contains(peers, ret'.ev.peer)
        /\ peers'[ret'.ev.peer + 1].peer.life = ret'.handle
        /\ events' = events \o <<HostEvent("Connect", ret'.ev.peer, <<>>, ret'.handle),
                                 Disconnect(ret'.ev.peer, ret'.handle, "refused")>>

\* C5 as stated: a refused connect returns Ok with the handle of a peer
\* without a socket and queues Connect, Disconnect for its slot; the next two
\* process calls return that Connect and that Disconnect, and no error.
C5_NextTwoCalls ==
    [][/\ C5_Connect
       /\ (RefusedReturned /\ ProcessCall) =>
             /\ ret'.kind = "Event" /\ ret'.ev.kind = "Connect"
             /\ ret'.ev.peer = ret.ev.peer
       /\ (ret.kind = "Event" /\ ret.ev.kind = "Connect" /\ Placeholder(ret.ev.peer)
             /\ ProcessCall) =>
             /\ ret'.kind = "Event" /\ ret'.ev.kind = "Disconnect"
             /\ ret'.ev.peer = ret.ev.peer]_vars

\* The events of a placeholder are Connect, Disconnect: what was returned
\* followed by what is queued, and the queued ones are next to each other.
C5_Pending ==
    \A s \in Slots : Placeholder(s) =>
        LET l == peers[s + 1].peer.life
            q == SelectSeq(events, LAMBDA e : e.life = l)
        IN  /\ [i \in 1..(Len(hist[l]) + Len(q)) |->
                   IF i <= Len(hist[l]) THEN hist[l][i].kind ELSE q[i - Len(hist[l])].kind]
                 = <<"Connect", "Disconnect">>
            /\ \A i \in 1..Len(q) : q[i].peer = s
            /\ Len(q) = 2 =>
                 \E i \in 1..(Len(events) - 1) : events[i] = q[1] /\ events[i + 1] = q[2]
            /\ Len(q) = 1 => Head(events) = q[1]

\* C5, amended: a refused connect returns Ok with the handle of a peer
\* without a socket and appends Connect, Disconnect for its slot to the
\* queue; the two stay adjacent, and once the Connect is at the head of the
\* queue two consecutive process calls return it and then the Disconnect,
\* each with the handle of that peer and without an error.
C5_RefusedConnect ==
    /\ []C5_Pending
    /\ [][/\ C5_Connect
          /\ (events # <<>> /\ Placeholder(Head(events).peer)
                /\ Head(events).life = peers[Head(events).peer + 1].peer.life
                /\ ProcessCall) =>
                /\ ret' = Ret("Event", Head(events), "ok", Head(events).life)
                /\ events' = Tail(events)
                /\ contains(peers', Head(events).peer)
                /\ peers'[Head(events).peer + 1].peer = peers[Head(events).peer + 1].peer]_vars

\* Both events of a refused connect were returned, the placeholder is still
\* in its slot.
C5_Witness ==
    /\ ret.kind = "Event" /\ ret.ev.kind = "Disconnect" /\ ret.ev.cause = "refused"
    /\ Placeholder(ret.ev.peer)
    /\ ret.handle = peers[ret.ev.peer + 1].peer.life
    /\ Len(hist[ret.handle]) = 2

\* The host a tick starts from, when the call has no event to return: the
\* deferred removal is done, the scan comes next.
TickRuns == Running /\ events = <<>>
TickHost == pop_event(Host).h

\* The scan of the slots below s: Scan stopped in front of slot s.
ScanBefore(h, s, inp) == Scan([h EXCEPT !.peers = SubSeq(@, 1, s)], 0, inp, clock)

\* The host without the peer of slot s.
Without(h, s) == [h EXCEPT !.peers[s + 1] = Vacant(h.slabNext)]

EventsOf(evs, s) == SelectSeq(evs, LAMBDA e : e.peer = s)
EventsNotOf(evs, s) == SelectSeq(evs, LAMBDA e : e.peer # s)

\* Once everything a remote endpoint wrote was read and a zero-length header
\* was part of it, the peer has its Disconnect; InvalidData is never returned
\* to the caller.
C6_Rejected ==
    /\ \A s \in Slots :
         (contains(peers, s) /\ sock[s].zero /\ sock[s].wire = <<>> /\ sock[s].rx = <<>>)
             => Enqueued(peers[s + 1].peer.life, "Disconnect") = 1
    /\ ret.err # "InvalidData"

\* In a tick in which the peer of slot s reads a zero-length header, the
\* other peers, their sockets, their events and the result of the call are
\* what they are in the same tick without the peer of slot s.
C6_Isolated ==
    TickRuns =>
        \A inp \in Inputs(TickHost) : \A s \in Slots :
            (/\ contains(TickHost.peers, s)
             /\ ScanBefore(TickHost, s, inp).err = "ok"
             /\ ~TimedOut(TickHost.peers[s + 1].peer, clock)
             /\ process(TickHost.peers[s + 1].peer, IoOf(TickHost, s, inp), clock).err
                  = "InvalidData")
            => LET r == process_internal(TickHost, inp, clock)
                   r0 == process_internal(Without(TickHost, s), inp, clock)
               IN  /\ Count(EventsOf(r.events, s), "Disconnect") = 1
                   /\ r.err = r0.err
                   /\ EventsNotOf(r.events, s) = r0.events
                   /\ \A t \in Slots \ {s} :
                        /\ r.sock[t] = r0.sock[t]
                        /\ r.pending[t] = r0.pending[t]
                        /\ t < Len(r.peers) => r.peers[t + 1] = r0.peers[t + 1]

\* C6: a peer whose inbound stream holds a zero-length frame header, wherever
\* it stands and however the reads split it, gets a Disconnect and the call
\* returns no error for it; the other peers are processed in that tick as if
\* the peer were absent.
C6_ZeroLength == C6_Rejected /\ C6_Isolated

\* One tick read a zero-length header on slot 0 and a payload on slot 1.
C6_Witness ==
    /\ ret.kind = "None"
    /\ sock[0].zero /\ sock[0].wire = <<>> /\ sock[0].rx = <<>>
    /\ \E i \in 1..Len(events) :
         events[i].kind = "Disconnect" /\ events[i].peer = 0 /\ events[i].cause = "malformed"
    /\ \E i \in 1..Len(events) : events[i].kind = "Receive" /\ events[i].peer = 1

\* The scan of the slots up to and including s.
ScanThrough(h, s, inp) == Scan([h EXCEPT !.peers = SubSeq(@, 1, s + 1)], 0, inp, clock)

\* The tick that reaches an idle peer queues its Disconnect and does no I/O
\* on it; the tick that reaches any other peer queues no timeout Disconnect
\* for it.
C7_Tick ==
    TickRuns =>
        \A inp \in Inputs(TickHost) : \A s \in Slots :
            (contains(TickHost.peers, s) /\ ScanBefore(TickHost, s, inp).err = "ok")
            => LET peer == TickHost.peers[s + 1].peer
                   b == ScanBefore(TickHost, s, inp)
                   a == ScanThrough(TickHost, s, inp)
               IN  IF clock - peer.last_activity >= Timeout
                   THEN /\ a.events = Append(b.events, Disconnect(s, peer.life, "timeout"))
                        /\ a.peers[s + 1].peer = peer
                        /\ a.sock[s] = b.sock[s]
                        /\ a.err = "ok"
                   ELSE \A i \in 1..Len(a.events) :
                          ~(a.events[i].peer = s /\ a.events[i].cause = "timeout")

\* A queued timeout Disconnect belongs to a peer that is still in its slot and
\* idle for the timeout or longer.
C7_Cause ==
    \A i \in 1..Len(events) :
        events[i].cause = "timeout" =>
            /\ contains(peers, events[i].peer)
            /\ peers[events[i].peer + 1].peer.life = events[i].life
            /\ clock - peers[events[i].peer + 1].peer.last_activity >= Timeout

\* No timeout Disconnect is left in the queue when the calls have come to
\* an end.
C7_Delivered ==
    ~Running => \A i \in 1..Len(events) : events[i].cause # "timeout"

\* C7: a live peer idle for the timeout or longer gets its Disconnect queued,
\* without any I/O, by the next tick that scans it, and a later process call
\* delivers it; a peer idle for less is never disconnected by the timeout.
C7_TimeoutEviction == C7_Tick /\ C7_Cause /\ C7_Delivered

\* The kinds the host answers with a Disconnect.
DisconnectKinds == {"ConnectionReset", "ConnectionAborted", "ConnectionRefused",
                    "BrokenPipe", "InvalidData"}

\* C8: when the process() of a scanned peer fails with connection reset,
\* connection aborted, connection refused, broken pipe or a malformed frame,
\* exactly one Disconnect is queued for its slot, the scan goes on with the
\* peers behind it and the call does not return that error; with any other
\* kind the call returns that error and queues no Disconnect for the slot.
C8_ErrorPolicy ==
    /\ ret.err \notin DisconnectKinds
    /\ TickRuns =>
         \A inp \in Inputs(TickHost) : \A s \in Slots :
            LET peer == TickHost.peers[s + 1].peer
                u == process(peer, IoOf(TickHost, s, inp), clock)
                r == process_internal(TickHost, inp, clock)
            IN  (/\ contains(TickHost.peers, s)
                 /\ ScanBefore(TickHost, s, inp).err = "ok"
                 /\ ~TimedOut(peer, clock)
                 /\ u.err # "ok")
                => IF u.err \in DisconnectKinds
                   THEN /\ Count(EventsOf(r.events, s), "Disconnect") = 1
                        /\ r.err # u.err
                        /\ \A t \in Slots :
                             (t > s /\ contains(TickHost.peers, t)
                                /\ ScanBefore(TickHost, t, inp).err = "ok"
                                /\ TimedOut(TickHost.peers[t + 1].peer, clock))
                             => Count(EventsOf(r.events, t), "Disconnect") = 1
                   ELSE /\ r.err = u.err
                        /\ Count(EventsOf(r.events, s), "Disconnect") = 0
                        /\ r.pending = TickHost.pending

\* A tick queued the Disconnect of a recoverable error on one peer and
\* returned the fatal error of another.
C8_Witness ==
    /\ ret.kind = "Err" /\ ret.err = "Other"
    /\ \E i \in 1..Len(events) :
         events[i].kind = "Disconnect" /\ events[i].cause = "transport"

\* C9: process returns None only if the queue of pending events is empty.
C9_NoneMeansNoEvent == ret.kind = "None" => events = <<>>

\* C10: the slot of a peer stays occupied while its Disconnect is being
\* returned; it is freed by the next call of process or process_blocking and
\* by nothing else, and only the slot whose Disconnect the previous such call
\* returned is freed.
C10_Inv ==
    /\ remove # NoSlot =>
         /\ contains(peers, remove)
         /\ hist[peers[remove + 1].peer.life] # <<>>
         /\ hist[peers[remove + 1].peer.life][Len(hist[peers[remove + 1].peer.life])].kind
              = "Disconnect"
    /\ (ret.kind = "Event" /\ ret.ev.kind = "Disconnect") =>
         /\ remove = ret.ev.peer
         /\ contains(peers, ret.ev.peer)
         /\ peers[ret.ev.peer + 1].peer.life = ret.ev.life

C10_DeferredFree ==
    /\ []C10_Inv
    /\ [][\A s \in Slots :
            /\ Freed(s) => remove = s /\ ProcessCall
            /\ (remove = s /\ ProcessCall) => Freed(s)]_vars

\* A Disconnect was just returned: its slot is still occupied and marked.
C10_Witness ==
    /\ ret.kind = "Event" /\ ret.ev.kind = "Disconnect"
    /\ remove = ret.ev.peer /\ contains(peers, remove)

\* The peer is disconnected: its socket is gone or its connection state is
\* Disconnected.
Gone(p) == ~connected(p) \/ p.connection_state = "Disconnected"

\* Nothing of a disconnected peer's outbound queue reaches the transport.
C11_NoWrite ==
    \A s \in Slots : (contains(peers, s) /\ Gone(peers[s + 1].peer)) =>
        \A inp \in Inputs(Host) :
            process(peers[s + 1].peer, IoOf(Host, s, inp), clock).out = <<>>

\* C11: send on a disconnected peer has no effect: the outbound queue of the
\* peer is unchanged, and no byte of the payload is written to a transport.
C11_SendNoOp ==
    /\ []C11_NoWrite
    /\ [][\A s \in Slots :
            (contains(peers, s) /\ Gone(peers[s + 1].peer) /\ Send) =>
                peers'[s + 1].peer.outgoing_packets = peers[s + 1].peer.outgoing_packets]_vars

\* The tick that scans a peer on which disconnect() was called queues the
\* Disconnect of its slot, unless the peer has one already.
C12_Tick ==
    TickRuns =>
        \A inp \in Inputs(TickHost) : \A s \in Slots :
            (/\ contains(TickHost.peers, s)
             /\ TickHost.peers[s + 1].peer.connection_state = "Disconnected"
             /\ connected(TickHost.peers[s + 1].peer)
             /\ Enqueued(TickHost.peers[s + 1].peer.life, "Disconnect") = 0
             /\ ScanBefore(TickHost, s, inp).err = "ok")
            => Count(EventsOf(ScanThrough(TickHost, s, inp).events, s), "Disconnect") = 1

\* C12: disconnect() on a connected peer queues no event itself; the next
\* tick that scans the peer queues the Disconnect of its slot, and one
\* Disconnect at most is ever queued for the peer, however often
\* disconnect() is called.
C12_DisconnectCall ==
    /\ []C12_Tick
    /\ [](\A l \in Lives : Enqueued(l, "Disconnect") <= 1)
    /\ [][PeerDisconnect => events' = events]_vars

\* C13: broadcast appends one copy of the payload to the outbound queue of
\* every connected peer and leaves the outbound queue of every peer that is
\* not connected unchanged, wherever those stand in the slab.
C13_Broadcast ==
    [][Broadcast =>
          \E packet \in Payloads : \A s \in Slots : contains(peers, s) =>
              peers'[s + 1].peer.outgoing_packets
                = IF Gone(peers[s + 1].peer)
                  THEN peers[s + 1].peer.outgoing_packets
                  ELSE Append(peers[s + 1].peer.outgoing_packets, packet)]_vars

\* C14: every queued event names a slot occupied by the peer of the
\* lifecycle the event was queued for, and every returned event comes with
\* the handle of that peer: the lookup of the slot on delivery never fails.
C14_ValidEvents ==
    /\ Running
    /\ \A i \in 1..Len(events) :
         /\ contains(peers, events[i].peer)
         /\ peers[events[i].peer + 1].peer.life = events[i].life
    /\ ret.kind = "Event" => ret.handle = ret.ev.life

\* C15: a connect call that returns an error leaves the host as it was: no
\* slot is allocated and the queue of pending events gains nothing.
C15_FailedConnect ==
    [][(Connect /\ ret'.kind = "Err") =>
          /\ peers' = peers
          /\ slabNext' = slabNext
          /\ events' = events
          /\ remove' = remove]_vars

\* The frames of a sequence of payloads, one behind the other.
RECURSIVE FramesOf(_)
FramesOf(ps) == IF ps = <<>> THEN <<>> ELSE Frame(Head(ps)) \o FramesOf(Tail(ps))

\* What a peer still has to write: the rest of the frame in progress, then
\* the frames of the queued payloads.
Unwritten(p) ==
    (IF p.write_state.some
     THEN SubSeq(p.write_state.data, p.write_state.done + 1, Len(p.write_state.data))
     ELSE <<>>)
    \o FramesOf(p.outgoing_packets)

\* C16: whatever the transport accepts of a write attempt is a prefix of the
\* frames of the queued payloads in send order, and the rest stays with the
\* peer: a short write advances the offset of the frame in progress, and
\* WouldBlock clears the writable bit and keeps the frame and its offset, so
\* no byte is lost, repeated or reordered.
C16_WriteAutomaton ==
    \A s \in Slots : contains(peers, s) =>
        \A cap \in 0..MaxWCap :
            LET p == peers[s + 1].peer
                w == writable(p, cap, "none", clock)
            IN  /\ w.err = "ok"
                /\ IsPrefix(w.out, Unwritten(p))
                /\ w.out \o Unwritten(w.p) = Unwritten(p)
                /\ cap < Len(Unwritten(p)) => "w" \notin w.p.ready

\* The payloads the read automaton of lifecycle l has completed: returned,
\* queued as Receive events, or still in the inbound queue of the peer.
Completed(l, p) ==
    PayloadsOf(hist[l]) \o PayloadsOf(Queued(l)) \o p.incoming_packets

\* The bytes of its stream the peer of slot s has read.
Consumed(s) == Len(FramesOf(sock[s].wrote)) - Len(sock[s].wire) - Len(sock[s].rx)

\* C17: for a stream of valid frames, however it is split into reads, the
\* payloads the read automaton completes are those of the frames it has read
\* to their last byte, in stream order, and after the last byte of a frame
\* the automaton is back in its initial state.
C17_ReadAutomaton ==
    \A s \in Slots : (contains(peers, s) /\ ~sock[s].zero) =>
        LET p == peers[s + 1].peer
            wrote == sock[s].wrote
        IN  \A k \in 0..Len(wrote) :
                LET lo == Len(FramesOf(SubSeq(wrote, 1, k)))
                    hi == IF k < Len(wrote) THEN Len(FramesOf(SubSeq(wrote, 1, k + 1)))
                          ELSE lo + 1
                IN  /\ (lo <= Consumed(s) /\ Consumed(s) < hi)
                         => Completed(p.life, p) = SubSeq(wrote, 1, k)
                    /\ Consumed(s) = lo => p.read_state = RSNone

\* The first frame was read whole, the second is split inside its header.
C17_Witness ==
    /\ contains(peers, 0) /\ ~sock[0].zero /\ Len(sock[0].wrote) = 2
    /\ peers[1].peer.read_state.tag = "Size2"
    /\ PayloadsOf(hist[1]) = <<sock[0].wrote[1]>>

\* C18: a tick that is notified of the listener accepts every connection
\* pending at that moment, each into a slot of its own with exactly one
\* Connect; so no inbound connection waits in the accept queue without an
\* edge that will report it.
C18_AcceptAll ==
    (TickRuns /\ TickHost.lpending) =>
         \A inp \in Inputs(TickHost) :
             LET h == process_internal(TickHost, inp, clock)
             IN  (inp.fail = "none" /\ h.err = "ok") =>
                     /\ h.backlog = 0
                     /\ ~h.lpending
                     /\ h.lives = TickHost.lives + TickHost.backlog
                     /\ \A l \in (TickHost.lives + 1)..h.lives :
                            /\ Len(SelectSeq(h.events,
                                   LAMBDA e : e.kind = "Connect" /\ e.life = l)) = 1
                            /\ \E s \in Slots : /\ contains(h.peers, s)
                                                /\ h.peers[s + 1].peer.life = l
                                                /\ h.sock[s].open

\* C19: a call of process or process_blocking that finds the event queue
\* non-empty returns the head of the queue and does nothing else: apart from
\* the deferred free of a slot, no peer, socket or poller state changes.
C19_QueueFirst ==
    [][(events # <<>> /\ pc = "idle" /\ ProcessCall) =>
          /\ ret' = Ret("Event", Head(events), "ok", ret'.handle)
          /\ events' = Tail(events)
          /\ Len(peers') = Len(peers)
          /\ \A s \in Slots : s # remove =>
                 /\ contains(peers, s) => peers'[s + 1] = peers[s + 1]
                 /\ sock'[s] = sock[s]
                 /\ pending'[s] = pending[s]
          /\ lpending' = lpending /\ backlog' = backlog /\ lives' = lives]_vars

\* The I/O of a tick sets no bit; it clears the readable bit only when the
\* read answered WouldBlock, and then does; a zero-byte read keeps it; it
\* clears the writable bit only when a write of a queued packet met a full
\* socket, and a socket that accepts nothing clears it; an empty outbound
\* queue keeps it.
C20_IO ==
    \A s \in Slots : contains(peers, s) =>
        \A inp \in Inputs(Host) :
            LET p == peers[s + 1].peer
                io == IoOf(Host, s, inp)
                u == process(p, io, clock)
            IN  /\ u.p.ready \subseteq p.ready
                /\ ("r" \in p.ready /\ "r" \notin u.p.ready) => io.atEnd = "WouldBlock"
                /\ ("r" \in p.ready /\ io.atEnd = "WouldBlock" /\ connected(p)
                      /\ ~sock[s].zero) => "r" \notin u.p.ready
                /\ ("r" \in p.ready /\ io.atEnd = "Eof") => "r" \in u.p.ready
                /\ ("w" \in p.ready /\ "w" \notin u.p.ready) =>
                      /\ p.outgoing_packets # <<>>
                      /\ io.werr = "none" /\ Len(u.out) = io.cap
                /\ ("w" \in p.ready /\ connected(p) /\ u.err = "ok" /\ io.cap = 0
                      /\ p.outgoing_packets # <<>>) => "w" \notin u.p.ready
                /\ ("w" \in p.ready /\ p.outgoing_packets = <<>>) => "w" \in u.p.ready

\* The notification step merges the reported bits into the peer's and does
\* no I/O.
C20_Merge ==
    \A s \in Slots : contains(peers, s) =>
        \A lfirst \in BOOLEAN :
            LET h == Poll(Host, "none", lfirst, clock)
            IN  /\ h.peers[s + 1].peer =
                     [peers[s + 1].peer EXCEPT !.ready = @ \cup pending[s]]
                /\ h.sock[s] = sock[s]

\* A whole tick clears of a peer's bits only those its own I/O clears, adds
\* only the bits the poller reports for it, and adds all of them when the
\* tick succeeds; the caller's operations on the peer leave the bits alone.
C20_Tick ==
    /\ \A s \in Slots : contains(peers, s) =>
           /\ disconnect(peers[s + 1].peer).ready = peers[s + 1].peer.ready
           /\ \A packet \in Payloads :
                  send(peers[s + 1].peer, packet).ready = peers[s + 1].peer.ready
    /\ TickRuns =>
           \A inp \in Inputs(TickHost) : \A s \in Slots :
               contains(TickHost.peers, s) =>
                   LET h == process_internal(TickHost, inp, clock)
                       before == TickHost.peers[s + 1].peer.ready
                       after == h.peers[s + 1].peer.ready
                       io == process(TickHost.peers[s + 1].peer,
                                     IoOf(TickHost, s, inp), clock).p.ready
                   IN  /\ after \subseteq before \cup pending[s]
                       /\ before \ after \subseteq before \ io
                       /\ h.err = "ok" => pending[s] \subseteq after

\* C20: a readiness bit of a peer, once set by a notification, stays set
\* until a read (for the readable bit) or a write (for the writable bit) of
\* that peer answers WouldBlock, which clears that bit alone; the
\* notification step only merges bits and does no I/O; a zero-byte read and
\* an empty outbound queue clear nothing.
C20_ReadinessBits == C20_IO /\ C20_Merge /\ C20_Tick

\* The writable bit was set, a write met a full socket and cleared it; the
\* readable bit is still set on a stream the remote endpoint closed.
C20_Witness ==
    /\ contains(peers, 0)
    /\ Len(sent[1]) > Len(peers[1].peer.outgoing_packets)
    /\ peers[1].peer.ready = {"r"}
    /\ sock[0].eof /\ sock[0].rx = <<>>
    /\ ret.kind = "None" /\ pending[0] = {}

\* The inputs of a tick in which no transport call fails: every read, write
\* and accept answers data, zero bytes or WouldBlock.
Quiet(h) == { inp \in Inputs(h) : inp.fail = "none" /\ \A s \in Slots : inp.ioerr[s] = "none" }

\* A tick whose transport calls answer at worst WouldBlock returns no error
\* unless a malformed frame arrived, and queues no Disconnect other than for
\* a malformed frame or an idle peer; an accept that answers WouldBlock adds
\* no peer and no event.
C21_Quiet ==
    TickRuns => \A inp \in Quiet(TickHost) :
        LET h == process_internal(TickHost, inp, clock)
        IN  /\ h.err # "ok" => \E s \in Slots : sock[s].zero
            /\ \A i \in (Len(TickHost.events) + 1)..Len(h.events) :
                   h.events[i].kind = "Disconnect" =>
                       \/ h.events[i].cause = "timeout"
                       \/ h.events[i].cause = "malformed" /\ sock[h.events[i].peer].zero
            /\ (TickHost.lpending /\ TickHost.backlog = 0) =>
                   /\ h.lives = TickHost.lives /\ ~h.lpending
                   /\ \A i \in (Len(TickHost.events) + 1)..Len(h.events) :
                          h.events[i].kind # "Connect"

\* A read that answers WouldBlock at once changes the peer's readable bit
\* and nothing else.
C21_Read ==
    \A s \in Slots : (contains(peers, s) /\ "r" \in peers[s + 1].peer.ready) =>
        LET p == peers[s + 1].peer
            r == readable(p, <<>>, "WouldBlock", clock)
        IN  r.err = "ok" /\ r.p = [p EXCEPT !.ready = @ \ {"r"}]

\* A write that answers WouldBlock at once changes the peer's writable bit
\* and nothing else: every byte still to be written stays with the peer.
C21_Write ==
    \A s \in Slots : (contains(peers, s) /\ "w" \in peers[s + 1].peer.ready
                        /\ peers[s + 1].peer.outgoing_packets # <<>>) =>
        LET p == peers[s + 1].peer
            w == writable(p, 0, "none", clock)
        IN  /\ w.err = "ok" /\ w.out = <<>>
            /\ w.p.ready = p.ready \ {"w"}
            /\ w.p.last_activity = p.last_activity
            /\ Unwritten(w.p) = Unwritten(p)

\* C21: a WouldBlock answer of a peer's read, of a peer's write or of the
\* listener's accept never makes the call return an error and never queues a
\* Disconnect; all it does is clear the readable or the writable bit, or end
\* the handling of the listener's notification.
C21_WouldBlock == C21_Quiet /\ C21_Read /\ C21_Write

\* The bytes the I/O of a tick moves for the peer of slot s of h: those it
\* reads from the socket and those the socket accepts from it.
Moved(h, s, inp) ==
    LET io == IoOf(h, s, inp)
        u == process(h.peers[s + 1].peer, io, clock)
    IN  Len(io.rx) - Len(u.rx) + Len(u.out)

\* C22: last_activity of a peer changes only in a tick in which a read or a
\* write of that peer moved at least one byte; send, disconnect and the
\* readiness notification leave it alone, and so does a tick whose I/O on
\* the peer answered WouldBlock or zero bytes, whatever happens to other
\* peers.
C22_LastActivity ==
    /\ \A s \in Slots : contains(peers, s) =>
           LET p == peers[s + 1].peer
           IN  /\ disconnect(p).last_activity = p.last_activity
               /\ \A packet \in Payloads : send(p, packet).last_activity = p.last_activity
               /\ \A bits \in SUBSET {"r", "w"} : ready(p, bits).last_activity = p.last_activity
               /\ \A atEnd \in {"WouldBlock", "Eof"} :
                      readable(p, <<>>, atEnd, clock).p.last_activity = p.last_activity
               /\ writable(p, 0, "none", clock).p.last_activity = p.last_activity
    /\ TickRuns =>
           \A inp \in Inputs(TickHost) : \A s \in Slots :
               contains(TickHost.peers, s) =>
                   LET h == process_internal(TickHost, inp, clock)
                       before == TickHost.peers[s + 1].peer.last_activity
                       after == h.peers[s + 1].peer.last_activity
                   IN  /\ contains(h.peers, s)
                       /\ after \in {before, clock}
                       /\ Moved(TickHost, s, inp) = 0 => after = before

\* The peer read or wrote at time 1, and time has gone on since.
C22_Witness ==
    /\ contains(peers, 0) /\ peers[1].peer.last_activity = 1
    /\ clock = 2 /\ ret.kind = "None"
    /\ "w" \in peers[1].peer.ready /\ peers[1].peer.outgoing_packets = <<>>

====
